---- MODULE Spec2Model ----
(***************************************************************************)
(* The /events routes of schej.it (src/server/routes/events.go) as a state *)
(* machine.  The state is the events collection, the reminder-task         *)
(* scheduler, the outbox of e-mails, and the requests in flight: every     *)
(* request is handled on its own goroutine, so a handler is cut into one   *)
(* atomic step per database operation (the read db.GetEventById, then the  *)
(* write), with the handler's local work and its calls to the scheduler    *)
(* and the mailer attached to the step they follow.                        *)
(*                                                                         *)
(* Representation.  An ObjectID is a string and Hex() is the identity; the *)
(* nil ObjectID is NilObjectID.  A *bool is one of "nil", "true", "false". *)
(* A nil *[]Remindee / *[]Attendee and an empty one are both the empty     *)
(* sequence: no handler tells them apart (userResponded answers 404 with   *)
(* the same error for both, the others read them through utils.Coalesce).  *)
(* Duration and Dates are carried exactly like Name (payload to document)  *)
(* and are left out.                                                       *)
(***************************************************************************)
EXTENDS Integers, Sequences, FiniteSets, Bags, TLC

\* ------------------------------------------------------------------ bounds
\* Requests started in one behaviour.
MaxOps == 3
\* Event ids the store hands out (the first event is 1).
MaxEvents == 3
\* Reminder-task handles the scheduler hands out.
MaxTasks == 6

\* ------------------------------------------------------------- value sets
\* Request slots: at most two requests are in flight together.
Procs == {1, 2}
NilObjectID == "nil"
Users == {"U1", "U2"}
\* A session without a userId.
NoSession == "anon"
Actors == Users \cup {NoSession}
\* Names a guest may submit; a guest may type anything, a user's id included.
GuestNames == {"g1", "U2"}
Emails == {"a", "b"}

\* The user directory (db.GetUserById): fixed, never written by these routes.
UserEmail(u) == IF u = "U1" THEN "o" ELSE "a"

VARIABLES
    db,         \* the events collection: event id -> document
    nextId,     \* the next ObjectID the store generates
    nextTask,   \* the next task handle the scheduler generates
    cancelled,  \* bag of task handles passed to gcloud.DeleteEmailTask
    outbox,     \* bag of e-mails handed to listmonk.SendEmail / utils.SendEmail
    req,        \* request slot -> the request it handles and its locals
    ops,        \* requests started so far
    clients,    \* how many requests the clients keep in flight together
    merged      \* event id -> the responses map as the per-key merges and
                \* deletes alone leave it (history, read by no action)

vars == <<db, nextId, nextTask, cancelled, outbox, req, ops, clients, merged>>

\* ---------------------------------------------------------------- helpers
\* Handles gcloud.CreateEmailTask returns for one e-mail.
TasksPerEmail == 2

Range(s) == {s[i] : i \in DOMAIN s}
\* utils.Coalesce on a *bool: nil counts as false.
Coalesce(b) == b = "true"
\* utils.Find with the test of line 542: the first remindee with the e-mail,
\* -1 for none.
Find(remindees, email) ==
    IF \E i \in DOMAIN remindees : remindees[i].Email = email
    THEN CHOOSE i \in DOMAIN remindees :
             /\ remindees[i].Email = email
             /\ \A j \in 1..(i - 1) : remindees[j].Email # email
    ELSE -1

EmptyResponses == [k \in {} |-> 0]
\* "set field responses.<key>": every other entry is left as it is.
SetField(m, k, v) == [x \in (DOMAIN m) \cup {k} |-> IF x = k THEN v ELSE m[x]]
\* "unset field responses.<key>": an absent key changes nothing.
UnsetField(m, k) == [x \in (DOMAIN m) \ {k} |-> m[x]]

NoEvent == [Id |-> 0]
\* db.GetEventById: the stored document, nil when there is none.
GetEventById(eid) == IF eid \in DOMAIN db THEN db[eid] ELSE NoEvent
\* db.GetUserById: nil (FALSE here) for the nil ObjectID, which is no user's id.
UserExists(id) == id \in Users

\* UpdateByID with utils.UpdateEventResponseAggregation(key, response).
UpdateEventResponseAggregation(d, eid, k, response) ==
    IF eid \in DOMAIN d
    THEN [d EXCEPT ![eid].Responses = SetField(@, k, response)]
    ELSE d
\* UpdateByID with utils.DeleteEventResponseAggregation(key).
DeleteEventResponseAggregation(d, eid, k) ==
    IF eid \in DOMAIN d
    THEN [d EXCEPT ![eid].Responses = UnsetField(@, k)]
    ELSE d
\* UpdateOne / UpdateByID with {"$set": event}: every field of the stored
\* document is overwritten by the handler's copy; no document, no change.
SetEvent(d, eid, event) ==
    IF eid \in DOMAIN d THEN [d EXCEPT ![eid] = event] ELSE d
\* InsertOne: the store generates the _id of a document that carries none.
InsertOne(d, id, event) == d @@ (id :> [event EXCEPT !.Id = id])

\* The history map: mergeResponse and deleteResponse of the specification
\* (section 4.3) applied to the map of event eid, one key at a time.
MergedSet(m, eid, k, v) ==
    IF eid \in DOMAIN m
    THEN [m EXCEPT ![eid] = [x \in (DOMAIN @) \cup {k} |-> IF x = k THEN v ELSE @[x]]]
    ELSE m
MergedUnset(m, eid, k) ==
    IF eid \in DOMAIN m
    THEN [m EXCEPT ![eid] = [x \in (DOMAIN @) \ {k} |-> @[x]]]
    ELSE m

\* ------------------------------------------------------------- requests
NoReq == [kind |-> "none", pc |-> "idle"]
Free(p) == req[p].pc \in {"idle", "done"}
\* A request arrives on the lowest free slot (slots are interchangeable).
Arrive(p) ==
    /\ ops < MaxOps
    /\ Cardinality({q \in Procs : ~Free(q)}) < clients
    /\ Free(p)
    /\ \A q \in Procs : q < p => ~Free(q)
\* The handler has answered: the status and the line of the answering call.
\* The slot keeps nothing else of the request.
Answer(kind, status, ret) ==
    [kind |-> kind, pc |-> "done", status |-> status, ret |-> ret]
Finish(r, status, ret) == Answer(r.kind, status, ret)

\* ---------------------------------------------------------- createEvent
TaskRange(first) == [i \in 1..TasksPerEmail |-> first + i - 1]
\* createEvent, lines 99-108: one Remindee per e-mail, with the task handles
\* gcloud.CreateEmailTask returned for it.
NewRemindees(emails, first) ==
    [i \in 1..Len(emails) |->
        [Email |-> emails[i],
         TaskIds |-> TaskRange(first + (i - 1) * TasksPerEmail),
         Responded |-> FALSE]]
NewAttendees(emails) ==
    [i \in 1..Len(emails) |-> [Email |-> emails[i], Declined |-> FALSE]]
InviteMail(email, eid) == [tpl |-> "invite", to |-> email, event |-> eid]
Invites(emails, eid) == SetToBag({InviteMail(emails[i], eid) : i \in DOMAIN emails})
\* The session's user as an owner id.
OwnerIdOf(actor) == IF actor \in Users THEN actor ELSE NilObjectID
\* The document createEvent inserts.
CreateEventDoc(actor, name, type, notif, remindees, attendees, first) ==
    [Id |-> NilObjectID,
     OwnerId |-> OwnerIdOf(actor),
     Name |-> name,
     Type |-> type,
     NotificationsEnabled |-> notif,
     Responses |-> EmptyResponses,
     Remindees |-> NewRemindees(remindees, first),
     Attendees |-> NewAttendees(attendees)]

\* ------------------------------------------------ updateEventResponse
\* Lines 370-395: the Response a payload becomes and the key it is stored under.
UserIdString(actor, guest, name) == IF guest THEN name ELSE actor
BuildResponse(actor, guest, name, availability, useCal) ==
    IF guest
    THEN [Name |-> name, UserId |-> NilObjectID, Availability |-> availability,
          UseCalendarAvailability |-> "nil"]
    ELSE [Name |-> "", UserId |-> actor, Availability |-> availability,
          UseCalendarAvailability |-> useCal]

\* Lines 349-398: bind, read the event, build the response, look the key up.
UpdateEventResponseRead(p, actor, eid, guest, name, availability, useCal) ==
    /\ Arrive(p)
    /\ ops' = ops + 1
    /\ LET event == GetEventById(eid)
           kind == "updateEventResponse"
           key == UserIdString(actor, guest, name)
       IN req' = [req EXCEPT ![p] =
            IF event = NoEvent THEN Answer(kind, 404, 366)
            ELSE IF ~guest /\ actor = NoSession
                 THEN Answer(kind, 401, 383)
            ELSE [kind |-> kind, pc |-> "write", actor |-> actor, eid |-> eid,
                  arg |-> key, guest |-> guest, event |-> event,
                  response |-> BuildResponse(actor, guest, name, availability, useCal),
                  userHasResponded |-> key \in DOMAIN event.Responses]]
    /\ UNCHANGED <<clients, db, nextId, nextTask, cancelled, outbox, merged>>

\* The slot of an answered update keeps the key and whether the handler
\* found it in the responses it read (line 398).
Responded(r) ==
    Finish(r, 200, 447) @@ [arg |-> r.arg, userHasResponded |-> r.userHasResponded]

\* Line 413: whether the first-response e-mail goroutine is started.
SendsFirstResponse(r) ==
    /\ Coalesce(r.event.NotificationsEnabled)
    /\ ~r.userHasResponded
    /\ r.arg # r.event.OwnerId

\* The answer of line 447, with or without the goroutine of line 415.
UpdateEventResponseAnswer(p) ==
    req' = [req EXCEPT ![p] =
        IF SendsFirstResponse(req[p])
        THEN [req[p] EXCEPT !.pc = "goroutine"] @@ [status |-> 200, ret |-> 447]
        ELSE Responded(req[p])]

\* Mutant: the handler adds the response to its copy of the event and writes
\* the whole copy back, as the other routes do.
StaleUpdateEventResponseWrite(p) ==
    /\ req[p].pc = "write"
    /\ req[p].kind = "updateEventResponse"
    /\ LET r == req[p]
       IN /\ db' = SetEvent(db, r.eid,
                      [r.event EXCEPT !.Responses = SetField(@, r.arg, r.response)])
          /\ merged' = MergedSet(merged, r.eid, r.arg, r.response)
    /\ UpdateEventResponseAnswer(p)
    /\ UNCHANGED <<clients, nextId, nextTask, cancelled, outbox, ops>>

\* Mutant: the handler sets the availability of an entry that exists and
\* leaves the entry's other fields as they are.
MergingUpdateEventResponseWrite(p) ==
    /\ req[p].pc = "write"
    /\ req[p].kind = "updateEventResponse"
    /\ LET r == req[p]
           old == IF r.eid \in DOMAIN db THEN db[r.eid].Responses ELSE EmptyResponses
           new == IF r.arg \in DOMAIN old
                  THEN [old[r.arg] EXCEPT !.Availability = r.response.Availability]
                  ELSE r.response
       IN /\ db' = UpdateEventResponseAggregation(db, r.eid, r.arg, new)
          /\ merged' = MergedSet(merged, r.eid, r.arg, r.response)
    /\ UpdateEventResponseAnswer(p)
    /\ UNCHANGED <<clients, nextId, nextTask, cancelled, outbox, ops>>

\* Lines 400-447: the per-key write, then the goroutine is started (or not)
\* and the handler answers 200.
UpdateEventResponseWrite(p) ==
    /\ req[p].pc = "write"
    /\ req[p].kind = "updateEventResponse"
    /\ LET r == req[p]
       IN /\ db' = UpdateEventResponseAggregation(db, r.eid, r.arg, r.response)
          /\ merged' = MergedSet(merged, r.eid, r.arg, r.response)
    /\ UpdateEventResponseAnswer(p)
    /\ UNCHANGED <<clients, nextId, nextTask, cancelled, outbox, ops>>

\* Lines 401-410 when UpdateByID returns an error: nothing is stored, the
\* handler panics (line 409), no goroutine is started and the caller gets 500.
UpdateEventResponseWriteFails(p) ==
    /\ req[p].pc = "write"
    /\ req[p].kind = "updateEventResponse"
    /\ req' = [req EXCEPT ![p] = Finish(req[p], 500, 409)]
    /\ UNCHANGED <<clients, db, nextId, nextTask, cancelled, outbox, ops, merged>>

FirstResponseMail(to, eid, who) ==
    [tpl |-> "firstResponse", to |-> to, event |-> eid, who |-> who]

\* Lines 415-444: the detached goroutine; no creator, no e-mail.
FirstResponseGoroutine(p) ==
    /\ req[p].pc = "goroutine"
    /\ LET r == req[p]
       IN /\ outbox' =
                IF UserExists(r.event.OwnerId)
                THEN outbox (+) SetToBag({FirstResponseMail(
                         UserEmail(r.event.OwnerId), r.eid, r.arg)})
                ELSE outbox
          /\ req' = [req EXCEPT ![p] = Responded(r)]
    /\ UNCHANGED <<clients, db, nextId, nextTask, cancelled, ops, merged>>

\* ------------------------------------------------ deleteEventResponse
\* Lines 458-495: bind, read the event, settle whose response goes.
DeleteEventResponseRead(p, actor, eid, guest, target) ==
    /\ Arrive(p)
    /\ ops' = ops + 1
    /\ LET event == GetEventById(eid)
           kind == "deleteEventResponse"
       IN req' = [req EXCEPT ![p] =
            IF event = NoEvent THEN Answer(kind, 404, 471)
            ELSE IF guest
                 THEN [kind |-> kind, pc |-> "write", actor |-> actor, eid |-> eid,
                       arg |-> target, guest |-> guest, event |-> event]
            ELSE IF actor = NoSession
                 THEN Answer(kind, 401, 481)
            ELSE IF target # actor /\ event.OwnerId # actor
                 THEN Answer(kind, 403, 489)
            ELSE [kind |-> kind, pc |-> "write", actor |-> actor, eid |-> eid,
                  arg |-> target, guest |-> guest, event |-> event]]
    /\ UNCHANGED <<clients, db, nextId, nextTask, cancelled, outbox, merged>>

\* Mutant: the handler removes the key from its copy of the event and writes
\* the whole copy back.
StaleDeleteEventResponseWrite(p) ==
    /\ req[p].pc = "write"
    /\ req[p].kind = "deleteEventResponse"
    /\ LET r == req[p]
       IN /\ db' = SetEvent(db, r.eid,
                      [r.event EXCEPT !.Responses = UnsetField(@, r.arg)])
          /\ merged' = MergedUnset(merged, r.eid, r.arg)
          /\ req' = [req EXCEPT ![p] = Finish(r, 200, 509) @@ [arg |-> r.arg]]
    /\ UNCHANGED <<clients, nextId, nextTask, cancelled, outbox, ops>>

\* Lines 497-509: the per-key removal, then 200.
DeleteEventResponseWrite(p) ==
    /\ req[p].pc = "write"
    /\ req[p].kind = "deleteEventResponse"
    /\ LET r == req[p]
       IN /\ db' = DeleteEventResponseAggregation(db, r.eid, r.arg)
          /\ merged' = MergedUnset(merged, r.eid, r.arg)
          /\ req' = [req EXCEPT ![p] = Finish(r, 200, 509) @@ [arg |-> r.arg]]
    /\ UNCHANGED <<clients, nextId, nextTask, cancelled, outbox, ops>>

\* --------------------------------------------------------- userResponded
EveryoneRespondedMail(to, eid) ==
    [tpl |-> "everyoneResponded", to |-> to, event |-> eid]
\* Lines 556-558: every task handle of a remindee goes to DeleteEmailTask.
CancelAll(taskIds) == [t \in Range(taskIds) |-> Cardinality({i \in DOMAIN taskIds : taskIds[i] = t})]

\* Mutant: the handler without the early return of lines 548-552.
UserRespondedReadAgain(p, eid, email) ==
    /\ Arrive(p)
    /\ ops' = ops + 1
    /\ LET event == GetEventById(eid)
           kind == "userResponded"
           index == Find(event.Remindees, email)
           found == event # NoEvent /\ index # -1
       IN /\ req' = [req EXCEPT ![p] =
                IF event = NoEvent THEN Answer(kind, 404, 532)
                ELSE IF ~found THEN Answer(kind, 404, 545)
                ELSE [kind |-> kind, pc |-> "write", eid |-> eid, arg |-> email,
                      event |-> [event EXCEPT !.Remindees[index].Responded = TRUE]]]
          /\ cancelled' = IF found
                          THEN cancelled (+) CancelAll(event.Remindees[index].TaskIds)
                          ELSE cancelled
    /\ UNCHANGED <<clients, db, nextId, nextTask, outbox, merged>>

\* Lines 520-558: bind, read the event, find the remindee; one that has
\* responded already ends the request, otherwise it is marked in the
\* handler's copy and its reminder tasks are deleted.
UserRespondedRead(p, eid, email) ==
    /\ Arrive(p)
    /\ ops' = ops + 1
    /\ LET event == GetEventById(eid)
           kind == "userResponded"
           index == Find(event.Remindees, email)
           found == event # NoEvent /\ index # -1
           marks == found /\ ~event.Remindees[index].Responded
       IN /\ req' = [req EXCEPT ![p] =
                IF event = NoEvent THEN Answer(kind, 404, 532)
                ELSE IF ~found THEN Answer(kind, 404, 545)
                ELSE IF event.Remindees[index].Responded THEN Answer(kind, 200, 550)
                ELSE [kind |-> kind, pc |-> "write", eid |-> eid, arg |-> email,
                      event |-> [event EXCEPT !.Remindees[index].Responded = TRUE]]]
          /\ cancelled' = IF marks
                          THEN cancelled (+) CancelAll(event.Remindees[index].TaskIds)
                          ELSE cancelled
    /\ UNCHANGED <<clients, db, nextId, nextTask, outbox, merged>>

\* Lines 566-572.
EveryoneResponded(event) ==
    \A i \in DOMAIN event.Remindees : event.Remindees[i].Responded

\* Lines 560-594: the whole copy is written back, then the owner is mailed
\* if every remindee of the copy has responded.  An ownerless event has no
\* owner to look up: owner.Email dereferences nil and the handler panics.
UserRespondedWrite(p) ==
    /\ req[p].pc = "write"
    /\ req[p].kind = "userResponded"
    /\ LET r == req[p]
           mails == EveryoneResponded(r.event)
       IN /\ db' = SetEvent(db, r.eid, r.event)
          /\ outbox' = IF mails /\ UserExists(r.event.OwnerId)
                       THEN outbox (+) SetToBag({EveryoneRespondedMail(
                                UserEmail(r.event.OwnerId), r.eid)})
                       ELSE outbox
          /\ req' = [req EXCEPT ![p] =
                IF mails /\ ~UserExists(r.event.OwnerId)
                THEN Finish(r, 500, 588)
                ELSE Finish(r, 200, 594)]
    /\ UNCHANGED <<clients, nextId, nextTask, cancelled, ops, merged>>

\* Lines 560-594 when UpdateByID returns an error: nothing is stored; the
\* handler drops the error (line 561) and goes on as after a write.
UserRespondedWriteFails(p) ==
    /\ req[p].pc = "write"
    /\ req[p].kind = "userResponded"
    /\ LET r == req[p]
           mails == EveryoneResponded(r.event)
       IN /\ outbox' = IF mails /\ UserExists(r.event.OwnerId)
                       THEN outbox (+) SetToBag({EveryoneRespondedMail(
                                UserEmail(r.event.OwnerId), r.eid)})
                       ELSE outbox
          /\ req' = [req EXCEPT ![p] =
                IF mails /\ ~UserExists(r.event.OwnerId)
                THEN Finish(r, 500, 588)
                ELSE Finish(r, 200, 594)]
    /\ UNCHANGED <<clients, db, nextId, nextTask, cancelled, ops, merged>>

\* --------------------------------------------------------- declineInvite
\* Lines 624-629: the last attendee with the user's e-mail, -1 for none.
AttendeeIndex(attendees, email) ==
    IF \E i \in DOMAIN attendees : attendees[i].Email = email
    THEN CHOOSE i \in DOMAIN attendees :
             /\ attendees[i].Email = email
             /\ \A j \in DOMAIN attendees : attendees[j].Email = email => j <= i
    ELSE -1

\* Mutant: the handler without the type check of lines 613-617.
DeclineInviteReadAnyType(p, actor, eid) ==
    /\ Arrive(p)
    /\ ops' = ops + 1
    /\ LET event == GetEventById(eid)
           kind == "declineInvite"
           index == AttendeeIndex(event.Attendees, UserEmail(actor))
       IN req' = [req EXCEPT ![p] =
            IF event = NoEvent THEN Answer(kind, 404, 609)
            ELSE IF index = -1 THEN Answer(kind, 404, 632)
            ELSE [kind |-> kind, pc |-> "write", eid |-> eid, arg |-> actor,
                  event |-> [event EXCEPT !.Attendees[index].Declined = TRUE]]]
    /\ UNCHANGED <<clients, db, nextId, nextTask, cancelled, outbox, merged>>

\* Lines 604-637 (the route is behind middleware.AuthRequired: actor is a user).
DeclineInviteRead(p, actor, eid) ==
    /\ Arrive(p)
    /\ ops' = ops + 1
    /\ LET event == GetEventById(eid)
           kind == "declineInvite"
           index == AttendeeIndex(event.Attendees, UserEmail(actor))
       IN req' = [req EXCEPT ![p] =
            IF event = NoEvent THEN Answer(kind, 404, 609)
            ELSE IF event.Type # "GROUP" THEN Answer(kind, 400, 615)
            ELSE IF index = -1 THEN Answer(kind, 404, 632)
            ELSE [kind |-> kind, pc |-> "write", eid |-> eid, arg |-> actor,
                  event |-> [event EXCEPT !.Attendees[index].Declined = TRUE]]]
    /\ UNCHANGED <<clients, db, nextId, nextTask, cancelled, outbox, merged>>

\* Lines 639-647.
DeclineInviteWrite(p) ==
    /\ req[p].pc = "write"
    /\ req[p].kind = "declineInvite"
    /\ db' = SetEvent(db, req[p].eid, req[p].event)
    /\ req' = [req EXCEPT ![p] = Finish(req[p], 200, 647)]
    /\ UNCHANGED <<clients, nextId, nextTask, cancelled, outbox, ops, merged>>

\* ------------------------------------------------------------- editEvent
\* utils.FindAddedRemovedKept(newArr, origArr): each result pairs a value
\* with its index, in the new list for added, in the old one for removed
\* and kept.
WithIndex(s, keep) ==
    LET F[i \in 0..Len(s)] ==
            IF i = 0 THEN <<>>
            ELSE IF s[i] \in keep THEN Append(F[i - 1], [Value |-> s[i], Index |-> i])
            ELSE F[i - 1]
    IN F[Len(s)]
Added(newArr, origArr) == WithIndex(newArr, Range(newArr) \ Range(origArr))
Removed(newArr, origArr) == WithIndex(origArr, Range(origArr) \ Range(newArr))
Kept(newArr, origArr) == WithIndex(origArr, Range(origArr) \cap Range(newArr))
EmailsOf(list) == [i \in DOMAIN list |-> list[i].Email]

\* Mutant: the owner is compared only when the session has a user.
EditForbiddenSignedIn(event, actor) ==
    event.OwnerId # NilObjectID /\ actor \in Users /\ event.OwnerId # OwnerIdOf(actor)

\* Lines 201-207: an event with an owner is edited by its owner alone.
EditForbidden(event, actor) ==
    event.OwnerId # NilObjectID /\ event.OwnerId # OwnerIdOf(actor)

\* Mutant: every remindee of the new list starts over as not responded.
ResetUpdatedRemindees(orig, emails, first) ==
    LET kept == Kept(emails, EmailsOf(orig))
        added == Added(emails, EmailsOf(orig))
    IN [i \in 1..Len(kept) |-> [orig[kept[i].Index] EXCEPT !.Responded = FALSE]]
       \o NewRemindees([i \in 1..Len(added) |-> added[i].Value], first)

\* Mutant: every submitted e-mail gets a fresh remindee.
RebuiltRemindees(orig, emails, first) == NewRemindees(emails, first)

\* Lines 216-253: kept remindees as they were, then one new remindee per
\* added e-mail with freshly scheduled tasks starting at handle first.
UpdatedRemindees(orig, emails, first) ==
    LET kept == Kept(emails, EmailsOf(orig))
        added == Added(emails, EmailsOf(orig))
    IN [i \in 1..Len(kept) |-> orig[kept[i].Index]]
       \o NewRemindees([i \in 1..Len(added) |-> added[i].Value], first)
\* Mutant: only the first task handle of a removed remindee is deleted.
FirstRemovedTask(orig, emails) ==
    LET removed == Removed(emails, EmailsOf(orig))
    IN SetToBag({orig[removed[i].Index].TaskIds[1] : i \in DOMAIN removed})

\* Lines 245-250: the task handles of the removed remindees, all deleted.
RemovedTasks(orig, emails) ==
    LET removed == Removed(emails, EmailsOf(orig))
        ts == {<<i, j>> \in (DOMAIN removed) \X (1..TasksPerEmail) :
                  j \in DOMAIN orig[removed[i].Index].TaskIds}
    IN [t \in {orig[removed[c[1]].Index].TaskIds[c[2]] : c \in ts} |->
           Cardinality({c \in ts : orig[removed[c[1]].Index].TaskIds[c[2]] = t})]
\* Lines 255-289: kept attendees as they were, then the added ones.
UpdatedAttendees(orig, emails) ==
    LET kept == Kept(emails, EmailsOf(orig))
        added == Added(emails, EmailsOf(orig))
    IN [i \in 1..Len(kept) |-> orig[kept[i].Index]]
       \o NewAttendees([i \in 1..Len(added) |-> added[i].Value])
\* Mutant: every submitted e-mail counts as added.
SubmittedEmails(orig, emails) == emails

AddedEmails(orig, emails) ==
    LET added == Added(emails, EmailsOf(orig))
    IN [i \in 1..Len(added) |-> added[i].Value]

IsDiscrete(type) == type \in {"DOW", "SPECIFIC_DATES"}

\* Lines 209-289: the handler's copy after the edit.
EditedEvent(event, name, type, notif, remindees, attendees, first) ==
    [event EXCEPT
        !.Name = name,
        !.NotificationsEnabled = notif,
        !.Type = type,
        !.Remindees = IF IsDiscrete(type)
                      THEN UpdatedRemindees(event.Remindees, remindees, first)
                      ELSE @,
        !.Attendees = IF type = "GROUP"
                      THEN UpdatedAttendees(event.Attendees, attendees)
                      ELSE @]

\* Lines 164-289: bind, read the event, check the owner, edit the copy,
\* schedule the added remindees' tasks, delete the removed ones', invite
\* the added attendees.
EditEventRead(p, actor, eid, name, type, notif, remindees, attendees) ==
    /\ Arrive(p)
    /\ ops' = ops + 1
    /\ LET event == GetEventById(eid)
           kind == "editEvent"
           edits == event # NoEvent /\ ~EditForbidden(event, actor)
           nAdded == IF edits /\ IsDiscrete(type)
                     THEN Len(AddedEmails(event.Remindees, remindees)) ELSE 0
       IN /\ nextTask + nAdded * TasksPerEmail <= MaxTasks + 1
          /\ req' = [req EXCEPT ![p] =
                IF event = NoEvent THEN Answer(kind, 404, 186)
                ELSE IF EditForbidden(event, actor) THEN Answer(kind, 403, 204)
                ELSE [kind |-> kind, pc |-> "write", eid |-> eid, arg |-> actor,
                      event |-> EditedEvent(event, name, type, notif,
                                            remindees, attendees, nextTask)]]
          /\ nextTask' = nextTask + nAdded * TasksPerEmail
          /\ cancelled' = IF edits /\ IsDiscrete(type)
                          THEN cancelled (+) RemovedTasks(event.Remindees, remindees)
                          ELSE cancelled
          /\ outbox' = IF edits /\ type = "GROUP"
                       THEN outbox (+) Invites(AddedEmails(event.Attendees, attendees), eid)
                       ELSE outbox
    /\ UNCHANGED <<clients, db, nextId, merged>>

\* Lines 291-306: the whole copy is written back, then 200.
EditEventWrite(p) ==
    /\ req[p].pc = "write"
    /\ req[p].kind = "editEvent"
    /\ db' = SetEvent(db, req[p].eid, req[p].event)
    /\ req' = [req EXCEPT ![p] = Finish(req[p], 200, 306)]
    /\ UNCHANGED <<clients, nextId, nextTask, cancelled, outbox, ops, merged>>

\* ----------------------------------------------------------- deleteEvent
\* Lines 656-678 (behind middleware.AuthRequired): DeleteOne filtered by
\* _id and ownerId, then 200 whatever was deleted.
DeleteEvent(p, actor, eid) ==
    /\ Arrive(p)
    /\ ops' = ops + 1
    /\ LET deletes == eid \in DOMAIN db /\ db[eid].OwnerId = actor
           left == IF deletes THEN (DOMAIN db) \ {eid} ELSE DOMAIN db
       IN /\ db' = [e \in left |-> db[e]]
          /\ merged' = [e \in left |-> merged[e]]
    /\ req' = [req EXCEPT ![p] = Answer("deleteEvent", 200, 677)]
    /\ UNCHANGED <<clients, nextId, nextTask, cancelled, outbox>>

\* -------------------------------------------------------- duplicateEvent
\* Mutant: the test of copyAvailability inverted.
DuplicatedEventInverted(event, eventName, copyAvailability) ==
    [event EXCEPT
        !.Id = NilObjectID,
        !.Name = eventName,
        !.Responses = IF copyAvailability THEN EmptyResponses ELSE @]

\* Lines 713-718: the copy that is inserted.
DuplicatedEvent(event, eventName, copyAvailability) ==
    [event EXCEPT
        !.Id = NilObjectID,
        !.Name = eventName,
        !.Responses = IF ~copyAvailability THEN EmptyResponses ELSE @]

\* Inserts that are under way: each will take one id of the store.
Inserting == Cardinality({q \in Procs : req[q].pc = "insert"})

\* Lines 687-718 (behind middleware.AuthRequired).
DuplicateEventRead(p, actor, eid, eventName, copyAvailability) ==
    /\ Arrive(p)
    /\ nextId + Inserting <= MaxEvents
    /\ ops' = ops + 1
    /\ LET event == GetEventById(eid)
           kind == "duplicateEvent"
       IN req' = [req EXCEPT ![p] =
            IF event = NoEvent THEN Answer(kind, 400, 703)
            ELSE IF event.OwnerId # actor THEN Answer(kind, 403, 709)
            ELSE [kind |-> kind, pc |-> "insert", eid |-> eid, arg |-> actor,
                  copyAvailability |-> copyAvailability,
                  event |-> DuplicatedEvent(event, eventName, copyAvailability)]]
    /\ UNCHANGED <<clients, db, nextId, nextTask, cancelled, outbox, merged>>

\* Lines 720-727.
DuplicateEventInsert(p) ==
    /\ req[p].pc = "insert"
    /\ req[p].kind = "duplicateEvent"
    /\ db' = InsertOne(db, nextId, req[p].event)
    /\ merged' = merged @@ (nextId :> req[p].event.Responses)
    /\ nextId' = nextId + 1
    /\ req' = [req EXCEPT ![p] = Finish(req[p], 201, 727)]
    /\ UNCHANGED <<clients, nextTask, cancelled, outbox, ops>>

\* ---------------------------------------------------- createEvent (action)
\* Lines 46-155: the tasks are scheduled and the invites sent for whatever
\* lists the payload carries, then the document is inserted.
CreateEvent(p, actor, name, type, notif, remindees, attendees) ==
    /\ Arrive(p)
    /\ nextId + Inserting <= MaxEvents
    /\ nextTask + Len(remindees) * TasksPerEmail <= MaxTasks + 1
    /\ ops' = ops + 1
    /\ db' = InsertOne(db, nextId,
                CreateEventDoc(actor, name, type, notif, remindees, attendees, nextTask))
    /\ merged' = merged @@ (nextId :> EmptyResponses)
    /\ nextId' = nextId + 1
    /\ nextTask' = nextTask + Len(remindees) * TasksPerEmail
    /\ outbox' = outbox (+) Invites(attendees, nextId)
    /\ req' = [req EXCEPT ![p] = Answer("createEvent", 201, 154)]
    /\ UNCHANGED <<clients, cancelled>>

\* ------------------------------------------------------------------ Init
\* The store holds one event, as createEvent (lines 46-155) leaves it: the
\* remindees' tasks are scheduled and the attendees' invites are sent.
InitTypes == {"SPECIFIC_DATES", "GROUP"}
InitLists == {<<>>, <<"a">>, <<"a", "b">>}
InitWith(types, lists, n) ==
    \E actor \in {NoSession, "U1"}, type \in types,
       notif \in {"nil", "true"}, list \in lists :
        LET remindees == IF type = "GROUP" THEN <<>> ELSE list
            attendees == IF type = "GROUP" THEN list ELSE <<>>
            doc == CreateEventDoc(actor, "n1", type, notif, remindees, attendees, 1)
        IN /\ db = InsertOne(<<>>, 1, doc)
           /\ nextId = 2
           /\ nextTask = 1 + Len(remindees) * TasksPerEmail
           /\ cancelled = EmptyBag
           /\ outbox = Invites(attendees, 1)
           /\ req = [p \in Procs |-> NoReq]
           /\ ops = 0
           /\ clients = n
           /\ merged = (1 :> EmptyResponses)

Init == InitWith(InitTypes, InitLists, Cardinality(Procs))

\* ------------------------------------------------------------------ Next
\* The ids a request names: every stored event and one id that is not stored.
Targets == (DOMAIN db) \cup {nextId}
\* What a response payload carries besides the name: the availability and
\* the calendar flag.
ResponsePayloads == {<<1, "nil">>, <<2, "true">>}
\* What an edit submits: the type, the flag and the list of the type's kind.
EditTypes == {"DOW", "GROUP"}
EditLists == {<<>>, <<"b">>, <<"b", "a">>}

UpdateResponseArrivals(names, actors) ==
    \E p \in Procs, eid \in Targets, pl \in ResponsePayloads :
        \/ \E name \in names :
               UpdateEventResponseRead(p, NoSession, eid, TRUE, name, pl[1], pl[2])
        \/ \E actor \in actors :
               UpdateEventResponseRead(p, actor, eid, FALSE, "", pl[1], pl[2])
DeleteResponseArrivals ==
    \E p \in Procs, eid \in Targets :
        \/ \E target \in GuestNames :
               DeleteEventResponseRead(p, NoSession, eid, TRUE, target)
        \/ \E actor \in Actors, target \in Users \cup GuestNames :
               DeleteEventResponseRead(p, actor, eid, FALSE, target)
RespondedArrivals ==
    \E p \in Procs, eid \in Targets, email \in Emails :
        UserRespondedRead(p, eid, email)
DeclineArrivals ==
    \E p \in Procs, eid \in Targets, actor \in Users :
        DeclineInviteRead(p, actor, eid)
EditArrivals(actors, notifs, lists) ==
    \E p \in Procs, eid \in Targets, actor \in actors, type \in EditTypes,
       notif \in notifs, list \in lists :
        EditEventRead(p, actor, eid, "n2", type, notif,
                      IF type = "GROUP" THEN <<>> ELSE list,
                      IF type = "GROUP" THEN list ELSE <<>>)
DeleteEventArrivals ==
    \E p \in Procs, eid \in Targets, actor \in Users :
        DeleteEvent(p, actor, eid)
DuplicateArrivals ==
    \E p \in Procs, eid \in Targets, actor \in Users, copy \in BOOLEAN :
        DuplicateEventRead(p, actor, eid, "n3", copy)
CreateArrivals ==
    \E p \in Procs, actor \in Actors, type \in InitTypes, list \in InitLists :
        CreateEvent(p, actor, "n1", type, "true",
                    IF type = "GROUP" THEN <<>> ELSE list,
                    IF type = "GROUP" THEN list ELSE <<>>)
CreateArrivalsOf(actors, types, lists) ==
    \E p \in Procs, actor \in actors, type \in types, list \in lists :
        CreateEvent(p, actor, "n1", type, "true",
                    IF type = "GROUP" THEN <<>> ELSE list,
                    IF type = "GROUP" THEN list ELSE <<>>)

UpdateResponseSteps ==
    \E p \in Procs : UpdateEventResponseWrite(p) \/ FirstResponseGoroutine(p)
DeleteResponseSteps == \E p \in Procs : DeleteEventResponseWrite(p)
RespondedSteps == \E p \in Procs : UserRespondedWrite(p)
DeclineSteps == \E p \in Procs : DeclineInviteWrite(p)
EditSteps == \E p \in Procs : EditEventWrite(p)
DuplicateSteps == \E p \in Procs : DuplicateEventInsert(p)
\* The store fails a write of a response or of a responded mark.
UpdateResponseFailures == \E p \in Procs : UpdateEventResponseWriteFails(p)
RespondedFailures == \E p \in Procs : UserRespondedWriteFails(p)

\* Every route, any two requests in flight together.
Next ==
    \/ UpdateResponseArrivals(GuestNames, Actors) \/ UpdateResponseSteps
    \/ DeleteResponseArrivals \/ DeleteResponseSteps
    \/ RespondedArrivals \/ RespondedSteps
    \/ DeclineArrivals \/ DeclineSteps
    \/ EditArrivals(Actors, {"nil", "true"}, EditLists) \/ EditSteps
    \/ DeleteEventArrivals
    \/ DuplicateArrivals \/ DuplicateSteps
    \/ CreateArrivals
    \/ UpdateResponseFailures \/ RespondedFailures
Spec == Init /\ [][Next]_vars

\* The specifications below run some of the routes only: their behaviours
\* are behaviours of Spec, over a state space small enough to exhaust.

\* The response routes, any two requests in flight together, on an event
\* without remindees or attendees (the response routes read neither).
NextResponses ==
    \/ UpdateResponseArrivals(GuestNames, Actors) \/ UpdateResponseSteps
    \/ DeleteResponseArrivals \/ DeleteResponseSteps
InitResponses == InitWith(InitTypes, {<<>>}, Cardinality(Procs))
SpecResponses == InitResponses /\ [][NextResponses]_vars

\* A response update (by the guest g1 or the user U2) against the routes
\* that write the whole document back, any two requests in flight together,
\* on an event that lists the e-mail a.
NextRace ==
    \/ UpdateResponseArrivals({"g1"}, {"U2"}) \/ UpdateResponseSteps
    \/ RespondedArrivals \/ RespondedSteps
    \/ DeclineArrivals \/ DeclineSteps
    \/ EditArrivals({NoSession, "U1"}, {"true"}, {<<"a">>, <<"b">>}) \/ EditSteps
InitRace == InitWith(InitTypes, {<<"a">>}, Cardinality(Procs))
SpecRace == InitRace /\ [][NextRace]_vars

\* The responded route alone, any two requests in flight together.
NextResponded == RespondedArrivals \/ RespondedSteps
InitResponded == InitWith({"SPECIFIC_DATES"}, InitLists, Cardinality(Procs))
SpecResponded == InitResponded /\ [][NextResponded]_vars

\* The edit route alone, any two requests in flight together,
\* on an event that lists the e-mail a.
GateNotifs == {"nil", "true"}
GateLists == {<<>>, <<"b", "a">>}
NextEdit == EditArrivals(Actors, GateNotifs, GateLists) \/ EditSteps
InitEdit == InitWith(InitTypes, {<<"a">>}, Cardinality(Procs))
SpecEdit == InitEdit /\ [][NextEdit]_vars

\* Responses, then duplicates, one request at a time.
NextDuplicate ==
    \/ UpdateResponseArrivals(GuestNames, Actors) \/ UpdateResponseSteps
    \/ DuplicateArrivals \/ DuplicateSteps
InitDuplicate == InitWith(InitTypes, {<<>>, <<"a">>}, 1)
SpecDuplicate == InitDuplicate /\ [][NextDuplicate]_vars

\* The responded route against the owner's edits, any two requests in
\* flight together, on an event with dates and up to two remindees.
RemindeeLists == {<<>>, <<"b">>, <<"a", "b">>, <<"b", "a">>}
NextRemindees ==
    \/ RespondedArrivals \/ RespondedSteps
    \/ EditArrivals({"U1"}, {"true"}, RemindeeLists) \/ EditSteps
InitRemindees == InitWith({"SPECIFIC_DATES"}, InitLists, Cardinality(Procs))
SpecRemindees == InitRemindees /\ [][NextRemindees]_vars

\* Events are created and deleted, any two requests in flight together.
NextDelete == CreateArrivals \/ DeleteEventArrivals
InitDelete == InitWith(InitTypes, {<<>>, <<"a">>}, Cardinality(Procs))
SpecDelete == InitDelete /\ [][NextDelete]_vars

\* Responses and responded marks with a store that may fail a write, any
\* two requests in flight together, on an event with dates.
NextFailures ==
    \/ UpdateResponseArrivals({"g1"}, {"U2"}) \/ UpdateResponseSteps
    \/ UpdateResponseFailures
    \/ RespondedArrivals \/ RespondedSteps
    \/ RespondedFailures
InitFailures == InitWith({"SPECIFIC_DATES"}, {<<"a">>, <<"a", "b">>}, Cardinality(Procs))
SpecFailures == InitFailures /\ [][NextFailures]_vars

\* Every route that names an event, any two requests in flight together,
\* on an event that lists the e-mail a.
NextErrors ==
    \/ UpdateResponseArrivals({"g1"}, {"U2"}) \/ UpdateResponseSteps
    \/ DeleteResponseArrivals \/ DeleteResponseSteps
    \/ RespondedArrivals \/ RespondedSteps
    \/ DeclineArrivals \/ DeclineSteps
    \/ EditArrivals({"U1"}, {"true"}, {<<"b">>}) \/ EditSteps
    \/ DeleteEventArrivals
    \/ DuplicateArrivals \/ DuplicateSteps
InitErrors == InitWith(InitTypes, {<<"a">>}, Cardinality(Procs))
SpecErrors == InitErrors /\ [][NextErrors]_vars

\* Events are created, edited by their owner and declined, any two
\* requests in flight together, starting from a GROUP.
NextAttendees ==
    \/ CreateArrivalsOf({"U1"}, {"GROUP"}, {<<"a">>, <<"a", "b">>})
    \/ DeclineArrivals \/ DeclineSteps
    \/ EditArrivals({"U1"}, {"true"}, EditLists) \/ EditSteps
InitAttendees == InitWith({"GROUP"}, {<<>>, <<"a">>}, Cardinality(Procs))
SpecAttendees == InitAttendees /\ [][NextAttendees]_vars

\* ---------------------------------------------------------------- claims
\* A request on every slot has been answered.
Answered(p, kind, ret) ==
    req[p].pc = "done" /\ req[p].kind = kind /\ req[p].ret = ret

\* C1: two updateEventResponse requests for distinct keys of one event never
\* lose each other's write: whenever the latest answered submissions for
\* two distinct keys k1, k2 of an event are r1, r2, the stored responses map
\* holds r1 under k1 and r2 under k2, however the two requests interleaved.
ResponseIsolation ==
    \A e \in DOMAIN db : \A k1, k2 \in DOMAIN merged[e] :
        k1 # k2 =>
            /\ {k1, k2} \subseteq DOMAIN db[e].Responses
            /\ db[e].Responses[k1] = merged[e][k1]
            /\ db[e].Responses[k2] = merged[e][k2]
\* Two overlapping updates (the second arrived while the first was in
\* flight) have both been answered and the map holds two entries.
ResponseIsolationWitness ==
    /\ ops = 2
    /\ \A p \in Procs : Answered(p, "updateEventResponse", 447)
    /\ Cardinality(DOMAIN db[1].Responses) = 2

\* No request is in flight.
Quiet == \A p \in Procs : Free(p)

\* C2 (as claimed): a response update racing a userResponded, an editEvent
\* or a declineInvite on the same event is not lost: once no request is in
\* flight, every key whose submission was answered is in the stored
\* responses map of the event, with the response last submitted for it.
NoLostResponse ==
    Quiet =>
        \A e \in DOMAIN db : \A k \in DOMAIN merged[e] :
            /\ k \in DOMAIN db[e].Responses
            /\ db[e].Responses[k] = merged[e][k]

\* C3 (as claimed): on an event with an owner and notificationsEnabled, a
\* participant key triggers the first-response e-mail exactly once over any
\* interleaving of response updates and deletions: no such e-mail is sent
\* twice, and a key whose response is stored (no goroutine pending for it)
\* has had its e-mail sent.
FirstResponseOnce ==
    /\ \A m \in BagToSet(outbox) : m.tpl = "firstResponse" => CopiesIn(m, outbox) <= 1
    /\ \A e \in DOMAIN db : \A k \in DOMAIN db[e].Responses :
          (/\ Coalesce(db[e].NotificationsEnabled)
           /\ UserExists(db[e].OwnerId)
           /\ k # db[e].OwnerId
           /\ \A p \in Procs : req[p].pc = "goroutine" => req[p].arg # k)
          => CopiesIn(FirstResponseMail(UserEmail(db[e].OwnerId), e, k), outbox) >= 1

\* C4 (as claimed): over every interleaving of userResponded requests the
\* everyone-responded e-mail of an event is sent at most once.
EveryoneRespondedOnce ==
    \A m \in BagToSet(outbox) : m.tpl = "everyoneResponded" => CopiesIn(m, outbox) <= 1

\* C5: a userResponded request for a remindee whose stored responded flag is
\* true is answered 200 by the step that reads the event, which leaves the
\* store, the scheduler and the outbox as they are; no write follows.
RespondedAgainIsNoOp ==
    [][\A p \in Procs, eid \in DOMAIN db, email \in Emails :
          (/\ UserRespondedRead(p, eid, email)
           /\ \E i \in DOMAIN db[eid].Remindees :
                  db[eid].Remindees[i].Email = email /\ db[eid].Remindees[i].Responded)
          => /\ UNCHANGED <<db, nextId, nextTask, cancelled, outbox>>
             /\ req'[p].pc = "done"
             /\ req'[p].status = 200]_vars
\* A request has returned at line 550 on an event with an owner, all of
\* whose remindees have responded and whose owner was mailed once.
RespondedAgainIsNoOpWitness ==
    \E p \in Procs :
        /\ Answered(p, "userResponded", 550)
        /\ db[1].Remindees # <<>>
        /\ EveryoneResponded(db[1])
        /\ CopiesIn(EveryoneRespondedMail(UserEmail("U1"), 1), outbox) = 1

\* C6: an updateEventResponse for a key that already has an entry leaves
\* exactly one entry under the key, equal to the response of this request in
\* every field, and leaves the entries of all other keys as they were.
ResponseOverwrite ==
    [][\A p \in Procs :
          (/\ UpdateEventResponseWrite(p)
           /\ req[p].eid \in DOMAIN db
           /\ req[p].arg \in DOMAIN db[req[p].eid].Responses)
          => LET e == req[p].eid
                 k == req[p].arg
             IN /\ DOMAIN db'[e].Responses = DOMAIN db[e].Responses
                /\ db'[e].Responses[k] = req[p].response
                /\ \A j \in (DOMAIN db[e].Responses) \ {k} :
                       db'[e].Responses[j] = db[e].Responses[j]]_vars
\* A resubmission has been answered: the handler had found the key, and the
\* entry now stored under it is a guest's although another entry is stored.
ResponseOverwriteWitness ==
    \E p \in Procs :
        /\ Answered(p, "updateEventResponse", 447)
        /\ req[p].userHasResponded
        /\ req[p].arg \in DOMAIN db[1].Responses
        /\ db[1].Responses[req[p].arg].Availability = 2
        /\ Cardinality(DOMAIN db[1].Responses) = 2

\* C7: an editEvent on an event with an owner, by a session that is not the
\* owner's (another user's, or none), is answered 403 by the step that reads
\* the event, which leaves the store, the scheduler and the outbox as they
\* are; by the owner, or on an event without owner by any session, it goes
\* on to write its copy of the event and is answered 200.
EditOwnershipGate ==
    [][\A p \in Procs :
          /\ \A eid \in DOMAIN db, actor \in Actors, type \in EditTypes,
                notif \in GateNotifs, list \in GateLists :
                 EditEventRead(p, actor, eid, "n2", type, notif,
                               IF type = "GROUP" THEN <<>> ELSE list,
                               IF type = "GROUP" THEN list ELSE <<>>)
                 => IF db[eid].OwnerId # NilObjectID /\ actor # db[eid].OwnerId
                    THEN /\ req'[p].pc = "done"
                         /\ req'[p].status = 403
                         /\ UNCHANGED <<db, nextId, nextTask, cancelled, outbox>>
                    ELSE req'[p].pc = "write"
          /\ EditEventWrite(p)
                 => /\ req'[p].pc = "done"
                    /\ req'[p].status = 200
                    /\ req[p].eid \in DOMAIN db => db'[req[p].eid] = req[p].event]_vars
\* An edit has been answered 403 and the event of U1 is as it was created.
EditOwnershipGateWitness ==
    \E p \in Procs :
        /\ Answered(p, "editEvent", 204)
        /\ db[1].OwnerId = "U1"
        /\ db[1].Name = "n1"

\* C8 (as claimed): deleteEventResponse removes the response stored under a
\* user's key k only for the user k or the owner of the event.
DeleteOnlyByParticipantOrOwner ==
    [][\A p \in Procs :
          (/\ DeleteEventResponseWrite(p)
           /\ req[p].eid \in DOMAIN db
           /\ req[p].arg \in Users
           /\ req[p].arg \in DOMAIN db[req[p].eid].Responses
           /\ req[p].arg \notin DOMAIN db'[req[p].eid].Responses)
          => req[p].actor \in {req[p].arg, db[req[p].eid].OwnerId}]_vars

\* C9: the write of deleteEventResponse for key k removes k from the
\* responses of the event and changes nothing else of the store (with k
\* absent, nothing at all), and the request is answered 200.
DeleteRemovesOneKey ==
    [][\A p \in Procs :
          (DeleteEventResponseWrite(p) /\ req[p].eid \in DOMAIN db)
          => LET e == req[p].eid
                 k == req[p].arg
                 old == db[e].Responses
             IN /\ DOMAIN db' = DOMAIN db
                /\ \A x \in (DOMAIN db) \ {e} : db'[x] = db[x]
                /\ db'[e] = [db[e] EXCEPT !.Responses = db'[e].Responses]
                /\ DOMAIN db'[e].Responses = (DOMAIN old) \ {k}
                /\ \A j \in (DOMAIN old) \ {k} : db'[e].Responses[j] = old[j]
                /\ (k \notin DOMAIN old => db' = db)
                /\ req'[p].pc = "done" /\ req'[p].status = 200]_vars
\* A deletion has been answered 200 for a key the map does not hold, and the
\* entry of another key is still stored.
DeleteRemovesOneKeyWitness ==
    \E p \in Procs :
        /\ Answered(p, "deleteEventResponse", 509)
        /\ req[p].arg \notin DOMAIN db[1].Responses
        /\ db[1].Responses # EmptyResponses

\* C10: the insert of a duplicateEvent stores one more event, under an id
\* that no stored event has (the source's included), and leaves every
\* stored event, the source among them, as it is; with copyAvailability the
\* responses of the new event are those of the source.
DuplicateCopiesResponses ==
    [][\A p \in Procs :
          DuplicateEventInsert(p)
          => LET n == nextId
                 src == req[p].eid
             IN /\ src \in DOMAIN db
                /\ n \notin DOMAIN db
                /\ n # src
                /\ DOMAIN db' = (DOMAIN db) \cup {n}
                /\ \A e \in DOMAIN db : db'[e] = db[e] /\ db[e].Id # n
                /\ db'[n].Id = n
                /\ req[p].copyAvailability => db'[n].Responses = db[src].Responses]_vars
\* The first event has been duplicated twice with its responses.
DuplicateCopiesResponsesWitness ==
    /\ DOMAIN db = {1, 2, 3}
    /\ db[1].Responses # EmptyResponses
    /\ db[2].Responses = db[1].Responses
    /\ db[3].Responses = db[1].Responses


\* The step in which slot p reads event eid for an edit that submits the
\* type and the list (of remindees, or of attendees for a GROUP).
EditReads(p, eid, type, list) ==
    \E actor \in Actors, notif \in GateNotifs :
        EditEventRead(p, actor, eid, "n2", type, notif,
                      IF type = "GROUP" THEN <<>> ELSE list,
                      IF type = "GROUP" THEN list ELSE <<>>)
\* The step starts an edit that will write: the request goes from a free
\* slot to the write.
EditStarts(p) ==
    /\ Free(p)
    /\ req'[p].pc = "write"
    /\ req'[p].kind = "editEvent"

\* C11: an edit of an event with dates that submits remindees keeps, in the
\* copy it goes on to store, every remindee it read whose e-mail is on the
\* submitted list, once and as it read it (responded flag and task
\* handles), whatever else it changes; the write stores that copy.
KeptRemindeesPreserved ==
    [][\A p \in Procs :
          /\ EditStarts(p) =>
                \A eid \in DOMAIN db, type \in {"DOW"}, list \in RemindeeLists :
                    (IsDiscrete(db[eid].Type) /\ EditReads(p, eid, type, list))
                    => \A i \in DOMAIN db[eid].Remindees :
                           db[eid].Remindees[i].Email \in Range(list)
                           => Cardinality({j \in DOMAIN req'[p].event.Remindees :
                                  req'[p].event.Remindees[j] = db[eid].Remindees[i]}) = 1
          /\ (EditEventWrite(p) /\ req[p].eid \in DOMAIN db)
                => db'[req[p].eid].Remindees = req[p].event.Remindees]_vars
\* An edit is about to store a remindee that has responded: one it kept.
KeptRemindeesPreservedWitness ==
    \E p \in Procs :
        /\ req[p].pc = "write"
        /\ req[p].kind = "editEvent"
        /\ req[p].event.Type = "DOW"
        /\ req[p].event.Name = "n2"
        /\ \E i \in DOMAIN req[p].event.Remindees : req[p].event.Remindees[i].Responded


\* What slot p, starting an edit of event eid in this step, makes of the
\* remindees it read, given the e-mails submitted: it goes on to store the
\* remindees it read whose e-mail is submitted, in the order it read them,
\* then one remindee per submitted e-mail it did not read, in submitted
\* order, not responded and with TasksPerEmail handles the scheduler had
\* not handed out before; every handle of every remindee it read whose
\* e-mail is not submitted is passed to DeleteEmailTask once, and no other
\* handle is.
ReconciledRemindees(p, eid, list) ==
    LET old == db[eid].Remindees
        new == req'[p].event.Remindees
        keptIdx == {i \in DOMAIN old : old[i].Email \in Range(list)}
        addedIdx == {i \in DOMAIN list : \A k \in DOMAIN old : old[k].Email # list[i]}
        nk == Cardinality(keptIdx)
        na == Cardinality(addedIdx)
    IN /\ Len(new) = nk + na
       /\ \A i \in keptIdx : new[1 + Cardinality({k \in keptIdx : k < i})] = old[i]
       /\ \A i \in addedIdx :
              LET r == new[nk + 1 + Cardinality({k \in addedIdx : k < i})]
              IN /\ r.Email = list[i]
                 /\ r.Responded = FALSE
                 /\ Len(r.TaskIds) = TasksPerEmail
                 /\ \A k \in DOMAIN r.TaskIds :
                        r.TaskIds[k] >= nextTask /\ r.TaskIds[k] < nextTask'
       /\ nextTask' = nextTask + na * TasksPerEmail
       /\ Cardinality(UNION {Range(new[j].TaskIds) : j \in (nk + 1)..(nk + na)})
              = na * TasksPerEmail
       /\ \A t \in 1..nextTask' :
              CopiesIn(t, cancelled') = CopiesIn(t, cancelled)
                  + Cardinality({c \in (DOMAIN old) \X (1..TasksPerEmail) :
                        /\ c[1] \notin keptIdx
                        /\ c[2] \in DOMAIN old[c[1]].TaskIds
                        /\ old[c[1]].TaskIds[c[2]] = t})

\* C12 (as claimed): every edit of an event stored with dates reconciles the
\* remindees with the submitted list, whatever type the edit submits (an
\* edit to GROUP submits no remindees).
RemindeesReconciledByStoredType ==
    [][\A p \in Procs :
          EditStarts(p) =>
              \A eid \in DOMAIN db, type \in EditTypes, list \in RemindeeLists :
                  (IsDiscrete(db[eid].Type) /\ EditReads(p, eid, type, list))
                  => ReconciledRemindees(p, eid, IF type = "GROUP" THEN <<>> ELSE list)]_vars

\* C12 (amended): every edit that submits a type with dates reconciles the
\* remindees with the submitted list, whatever type the event was stored
\* with; an edit that submits GROUP leaves the remindees it read as they
\* are, schedules no task and deletes none.
RemindeesReconciled ==
    [][\A p \in Procs :
          EditStarts(p) =>
              \A eid \in DOMAIN db, list \in RemindeeLists :
                  /\ EditReads(p, eid, "DOW", list) => ReconciledRemindees(p, eid, list)
                  /\ EditReads(p, eid, "GROUP", list)
                         => /\ req'[p].event.Remindees = db[eid].Remindees
                            /\ nextTask' = nextTask
                            /\ cancelled' = cancelled]_vars
\* An edit that kept b and added a is about to store b first, although a
\* was submitted first; an earlier edit removed a and deleted its tasks.
RemindeesReconciledWitness ==
    \E p \in Procs :
        /\ req[p].pc = "write"
        /\ req[p].kind = "editEvent"
        /\ Len(req[p].event.Remindees) = 2
        /\ req[p].event.Remindees[1].Email = "b"
        /\ req[p].event.Remindees[2].Email = "a"
        /\ req[p].event.Remindees[2].TaskIds = <<5, 6>>
        /\ CopiesIn(1, cancelled) = 1
        /\ CopiesIn(2, cancelled) = 1


\* C13 (as claimed): declined=true is terminal: no step takes the declined
\* flag of an attendee that stays on the stored list of an event from true
\* back to false.
DeclinedStays ==
    [][\A e \in DOMAIN db : \A i \in DOMAIN db[e].Attendees :
          (db[e].Attendees[i].Declined /\ e \in DOMAIN db')
          => \A j \in DOMAIN db'[e].Attendees :
                 db'[e].Attendees[j].Email = db[e].Attendees[i].Email
                 => db'[e].Attendees[j].Declined]_vars


\* C14 (as claimed): the first-response e-mail is sent only for an event of
\* type SPECIFIC_DATES or DOW with notifications enabled, for a key that
\* had no entry in the responses the handler read, and not for the owner's key.
FirstResponseOnlyWhen ==
    [][\A p \in Procs :
          (FirstResponseGoroutine(p) /\ outbox' # outbox)
          => /\ req[p].event.Type \in {"SPECIFIC_DATES", "DOW"}
             /\ req[p].event.NotificationsEnabled = "true"
             /\ req[p].arg \notin DOMAIN req[p].event.Responses
             /\ req[p].arg # req[p].event.OwnerId]_vars


\* C15 (as claimed): a deleteEvent removes the event only for its owner;
\* for any other authenticated user it is answered 403 and the event stays.
DeleteByOwnerOrForbidden ==
    [][\A p \in Procs, actor \in Users, eid \in DOMAIN db :
          DeleteEvent(p, actor, eid)
          => IF db[eid].OwnerId = actor
             THEN eid \notin DOMAIN db'
             ELSE /\ req'[p].status = 403
                  /\ eid \in DOMAIN db'
                  /\ db'[eid] = db[eid]]_vars


\* C16 (as claimed): a step that sends the everyone-responded e-mail leaves
\* the mark of the request's remindee stored, and a step that starts the
\* first-response goroutine leaves the request's response stored.
NotifiedAfterPersisted ==
    [][\A p \in Procs :
          /\ (/\ req[p].kind = "userResponded"
              /\ req[p].pc = "write"
              /\ req'[p].pc = "done"
              /\ outbox' # outbox)
             => \E i \in DOMAIN db'[req[p].eid].Remindees :
                    /\ db'[req[p].eid].Remindees[i].Email = req[p].arg
                    /\ db'[req[p].eid].Remindees[i].Responded
          /\ (/\ req[p].kind = "updateEventResponse"
              /\ req[p].pc = "write"
              /\ req'[p].pc = "goroutine")
             => /\ req[p].arg \in DOMAIN db'[req[p].eid].Responses
                /\ db'[req[p].eid].Responses[req[p].arg] = req[p].response]_vars


\* C17 (as claimed): once no request is in flight, on an event every
\* remindee of which a userResponded request has marked (its reminder tasks
\* were deleted), every stored responded flag is true and the owner, if
\* there is one, was sent the everyone-responded e-mail.
AllMarksKept ==
    Quiet =>
        \A e \in DOMAIN db :
            (/\ db[e].Remindees # <<>>
             /\ \A i \in DOMAIN db[e].Remindees :
                    CopiesIn(db[e].Remindees[i].TaskIds[1], cancelled) > 0)
            => /\ \A i \in DOMAIN db[e].Remindees : db[e].Remindees[i].Responded
               /\ UserExists(db[e].OwnerId)
                      => CopiesIn(EveryoneRespondedMail(UserEmail(db[e].OwnerId), e), outbox) > 0


\* The step leaves the store, the scheduler and the outbox as they are.
Unaffected == UNCHANGED <<db, nextId, nextTask, cancelled, outbox, merged>>
\* The step answers the request of slot p with the status and does nothing else.
Refused(p, status) ==
    /\ req'[p].pc = "done"
    /\ req'[p].status = status
    /\ Unaffected

\* C18: a userResponded for an e-mail that is not a remindee of the event
\* (or for an event that is not stored) is answered 404, a declineInvite on
\* an event that is not a GROUP is answered 400, one by a user whose e-mail
\* is not an attendee (or on an event that is not stored) is answered 404,
\* and every other request that names an event that is not stored is
\* answered in the step that looks the event up; each of these steps leaves
\* the store, the scheduler and the outbox as they are.
ErrorsHaveNoEffect ==
    [][\A p \in Procs :
          (Free(p) /\ ops' = ops + 1) =>
          /\ req'[p].kind = "userResponded" =>
             \A eid \in Targets, email \in Emails :
                 (/\ UserRespondedRead(p, eid, email)
                  /\ \/ eid \notin DOMAIN db
                     \/ \A i \in DOMAIN db[eid].Remindees :
                            db[eid].Remindees[i].Email # email)
                 => Refused(p, 404)
          /\ req'[p].kind = "declineInvite" =>
             \A eid \in Targets, actor \in Users :
                 DeclineInviteRead(p, actor, eid)
                 => /\ eid \notin DOMAIN db => Refused(p, 404)
                    /\ (eid \in DOMAIN db /\ db[eid].Type # "GROUP") => Refused(p, 400)
                    /\ (/\ eid \in DOMAIN db
                        /\ db[eid].Type = "GROUP"
                        /\ \A i \in DOMAIN db[eid].Attendees :
                               db[eid].Attendees[i].Email # UserEmail(actor))
                       => Refused(p, 404)
          /\ req'[p].kind = "updateEventResponse" =>
             \A pl \in ResponsePayloads, actor \in Actors, guest \in BOOLEAN,
                name \in GuestNames \cup {""} :
                 UpdateEventResponseRead(p, actor, nextId, guest, name, pl[1], pl[2])
                 => Refused(p, 404)
          /\ req'[p].kind = "deleteEventResponse" =>
             \A actor \in Actors, guest \in BOOLEAN, target \in Users \cup GuestNames :
                 DeleteEventResponseRead(p, actor, nextId, guest, target)
                 => Refused(p, 404)
          /\ req'[p].kind = "editEvent" =>
             \A actor \in Actors, type \in EditTypes, list \in EditLists :
                 EditEventRead(p, actor, nextId, "n2", type, "true",
                               IF type = "GROUP" THEN <<>> ELSE list,
                               IF type = "GROUP" THEN list ELSE <<>>)
                 => Refused(p, 404)
          /\ req'[p].kind = "duplicateEvent" =>
             \A actor \in Users, copy \in BOOLEAN :
                 DuplicateEventRead(p, actor, nextId, "n3", copy) => Refused(p, 400)
          /\ req'[p].kind = "deleteEvent" =>
             \A actor \in Users :
                 DeleteEvent(p, actor, nextId) => Refused(p, 200)]_vars
\* A decline was answered 400 on an event that is no GROUP any more and
\* still lists the attendee a, whose user declined.
ErrorsHaveNoEffectWitness ==
    \E p \in Procs :
        /\ Answered(p, "declineInvite", 615)
        /\ db[1].Type = "DOW"
        /\ db[1].Attendees = <<[Email |-> "a", Declined |-> FALSE]>>


\* What slot p, starting an edit of event eid in this step, makes of the
\* attendees it read, given the e-mails submitted: it goes on to store the
\* attendees it read whose e-mail is submitted, as it read them and in that
\* order, then one attendee per submitted e-mail it did not read, in
\* submitted order and not declined; it sends one invite to each of the
\* latter and no other e-mail, schedules nothing and deletes no task.
ReconciledAttendees(p, eid, list) ==
    LET old == db[eid].Attendees
        new == req'[p].event.Attendees
        keptIdx == {i \in DOMAIN old : old[i].Email \in Range(list)}
        addedIdx == {i \in DOMAIN list : \A k \in DOMAIN old : old[k].Email # list[i]}
        nk == Cardinality(keptIdx)
        na == Cardinality(addedIdx)
    IN /\ Len(new) = nk + na
       /\ \A i \in keptIdx : new[1 + Cardinality({k \in keptIdx : k < i})] = old[i]
       /\ \A i \in addedIdx :
              new[nk + 1 + Cardinality({k \in addedIdx : k < i})]
                  = [Email |-> list[i], Declined |-> FALSE]
       /\ \A email \in Emails :
              CopiesIn(InviteMail(email, eid), outbox')
                  = CopiesIn(InviteMail(email, eid), outbox)
                    + (IF \E i \in addedIdx : list[i] = email THEN 1 ELSE 0)
       /\ BagCardinality(outbox') = BagCardinality(outbox) + na
       /\ nextTask' = nextTask
       /\ cancelled' = cancelled

\* A createEvent stores its attendees not declined and sends each one invite.
CreatedAttendees(p) ==
    \A actor \in Actors, type \in InitTypes, list \in InitLists :
        CreateEvent(p, actor, "n1", type, "true",
                    IF type = "GROUP" THEN <<>> ELSE list,
                    IF type = "GROUP" THEN list ELSE <<>>)
        => LET att == IF type = "GROUP" THEN list ELSE <<>>
           IN /\ db'[nextId].Attendees
                     = [i \in DOMAIN att |-> [Email |-> att[i], Declined |-> FALSE]]
              /\ \A email \in Emails :
                     CopiesIn(InviteMail(email, nextId), outbox')
                         = IF email \in Range(att) THEN 1 ELSE 0

\* C19 (as claimed): every edit of an event stored as a GROUP reconciles
\* the attendees with the submitted list, whatever type the edit submits
\* (an edit to a type with dates submits no attendees).
AttendeesReconciledByStoredType ==
    [][\A p \in Procs :
          EditStarts(p) =>
              \A eid \in DOMAIN db, type \in EditTypes, list \in EditLists :
                  (db[eid].Type = "GROUP" /\ EditReads(p, eid, type, list))
                  => ReconciledAttendees(p, eid, IF type = "GROUP" THEN list ELSE <<>>)]_vars

\* C19 (amended): every edit that submits the type GROUP reconciles the
\* attendees with the submitted list, whatever type the event was stored
\* with; an edit that submits a type with dates leaves the attendees it
\* read as they are and sends no invite; a createEvent invites each of its
\* attendees once.
AttendeesReconciled ==
    [][\A p \in Procs :
          /\ EditStarts(p) =>
                \A eid \in DOMAIN db, list \in EditLists :
                    /\ EditReads(p, eid, "GROUP", list) => ReconciledAttendees(p, eid, list)
                    /\ EditReads(p, eid, "DOW", list)
                           => /\ req'[p].event.Attendees = db[eid].Attendees
                              /\ outbox' = outbox
          /\ (Free(p) /\ req'[p].kind = "createEvent") => CreatedAttendees(p)
          /\ (EditEventWrite(p) /\ req[p].eid \in DOMAIN db)
                => db'[req[p].eid].Attendees = req[p].event.Attendees]_vars
\* An edit that kept a, who had declined, and added b is about to store a
\* first and as declined; a and b were each invited once.
AttendeesReconciledWitness ==
    \E p \in Procs :
        /\ req[p].pc = "write"
        /\ req[p].kind = "editEvent"
        /\ req[p].event.Attendees
               = <<[Email |-> "a", Declined |-> TRUE], [Email |-> "b", Declined |-> FALSE]>>
        /\ CopiesIn(InviteMail("a", 1), outbox) = 1
        /\ CopiesIn(InviteMail("b", 1), outbox) = 1


\* C20: an edit that submits a type with dates and exactly the e-mails of
\* the remindees it read schedules no task, deletes none and goes on to
\* store the remindee list it read; and the copy any edit goes on to store
\* is a fixed point of that edit: submitted again on that copy it adds and
\* removes no remindee and gives the same copy.
SameEditIsIdle ==
    [][\A p \in Procs :
          EditStarts(p) =>
              \A eid \in DOMAIN db, type \in EditTypes, list \in RemindeeLists :
                  EditReads(p, eid, type, list)
                  => LET remindees == IF type = "GROUP" THEN <<>> ELSE list
                         attendees == IF type = "GROUP" THEN list ELSE <<>>
                         once == req'[p].event
                     IN /\ (/\ type = "DOW"
                            /\ Range(list) = Range(EmailsOf(db[eid].Remindees)))
                           => /\ nextTask' = nextTask
                              /\ cancelled' = cancelled
                              /\ once.Remindees = db[eid].Remindees
                        /\ type = "DOW"
                           => /\ AddedEmails(once.Remindees, remindees) = <<>>
                              /\ RemovedTasks(once.Remindees, remindees) = EmptyBag
                        /\ EditedEvent(once, "n2", type, once.NotificationsEnabled,
                                       remindees, attendees, nextTask') = once]_vars
\* An edit that submitted both stored e-mails is about to store the list it
\* read, in which a has responded; no task was scheduled or deleted.
SameEditIsIdleWitness ==
    \E p \in Procs :
        /\ req[p].pc = "write"
        /\ req[p].kind = "editEvent"
        /\ req[p].event.Type = "DOW"
        /\ req[p].eid \in DOMAIN db
        /\ req[p].event.Remindees = db[req[p].eid].Remindees
        /\ Len(req[p].event.Remindees) = 2
        /\ req[p].event.Remindees[1].Responded
        /\ nextTask = 5
        /\ cancelled = SetToBag({1, 2})


\* C21 (as claimed): no task handle is passed to DeleteEmailTask twice.
CancelledOnce ==
    \A t \in BagToSet(cancelled) : CopiesIn(t, cancelled) <= 1

\* C22 (as claimed): once no request is in flight, every task handle the
\* scheduler handed out and DeleteEmailTask was not called for is among the
\* task handles of a remindee of a stored event.
NoOrphanTask ==
    Quiet =>
        \A t \in 1..(nextTask - 1) :
            CopiesIn(t, cancelled) = 0
            => \E e \in DOMAIN db : \E i \in DOMAIN db[e].Remindees :
                   t \in Range(db[e].Remindees[i].TaskIds)

\* C23 (as claimed): a userResponded request that found its remindee and
\* went on to the write is answered 200.
RespondedSucceeds ==
    [][\A p \in Procs :
          (/\ req[p].kind = "userResponded"
           /\ req[p].pc = "write"
           /\ req'[p].pc = "done")
          => req'[p].status = 200]_vars

====
